---------------------------- MODULE Spec2Model ----------------------------
(***************************************************************************)
(* randlib: an LFSR pseudo-random number generator (src/src/lib.rs).       *)
(*                                                                         *)
(* A value of an integer type is a bit vector: a function from the bit     *)
(* positions 0..n-1 of the type to {0,1}, position i weighing 2^i.  The    *)
(* Seed (u128) is a 128-bit vector, so shifts, XOR, OR, casts and the      *)
(* remainder keep the width the Rust types have.                           *)
(***************************************************************************)
EXTENDS Integers, Sequences, FiniteSets

(***************************************************************************)
(* Bit vectors                                                             *)
(***************************************************************************)
Bits(n) == 0 .. (n - 1)

\* the n-bit vector whose set bits are the positions in ones
BV(n, ones) == [i \in Bits(n) |-> IF i \in ones THEN 1 ELSE 0]

\* a >> n and a << n on the type of a: zero fill, bits shifted out are lost
Shr(a, n) == [i \in DOMAIN a |-> IF (i + n) \in DOMAIN a THEN a[i + n] ELSE 0]

Shl(a, n) == [i \in DOMAIN a |-> IF (i - n) \in DOMAIN a THEN a[i - n] ELSE 0]

Xor(a, b) == [i \in DOMAIN a |-> (a[i] + b[i]) % 2]

Or(a, b) == [i \in DOMAIN a |-> IF a[i] + b[i] > 0 THEN 1 ELSE 0]

And(a, b) == [i \in DOMAIN a |-> a[i] * b[i]]

\* `x as T` for a non-negative x and an n-bit T: the low n bits, zero extended
As(x, n) == [i \in Bits(n) |-> IF i \in DOMAIN x THEN x[i] ELSE 0]

IsZero(a) == \A i \in DOMAIN a : a[i] = 0

(***************************************************************************)
(* The Seed type                                                           *)
(***************************************************************************)
SEED_SIZE == 16

SEED_SIZE_BITS == SEED_SIZE * 8

Seed == [Bits(SEED_SIZE_BITS) -> {0, 1}]

Zero == BV(SEED_SIZE_BITS, {})

\* a small natural number (below 2^31) as a Seed
SeedOf(n) == [i \in Bits(SEED_SIZE_BITS) |-> IF i < 31 THEN (n \div (2 ^ i)) % 2 ELSE 0]

(***************************************************************************)
(* Random::rotate                                                          *)
(***************************************************************************)
\* rotate with the tap at offset 7 left out
rotate_without_tap7(seed) ==
    LET newbit == Xor(Xor(seed, Shr(seed, 1)), Shr(seed, 2))
    IN  Or(Shr(seed, 1), Shl(newbit, 127))

\* rotate as a plain right shift: the feedback bit never enters
rotate_no_feedback(seed) == Shr(seed, 1)

\* rotate with the feedback bit inverted (an XNOR register)
rotate_xnor(seed) ==
    LET newbit == Xor(Xor(Xor(Xor(seed, Shr(seed, 1)), Shr(seed, 2)), Shr(seed, 7)),
                      SeedOf(1))
    IN  Or(Shr(seed, 1), Shl(newbit, 127))

\* rotate whose feedback leaves out the bit shifted out
rotate_drops_bit0(seed) ==
    LET newbit == Xor(Xor(Shr(seed, 1), Shr(seed, 2)), Shr(seed, 7))
    IN  Or(Shr(seed, 1), Shl(newbit, 127))

rotate(seed) ==
    LET newbit == Xor(Xor(Xor(seed, Shr(seed, 1)), Shr(seed, 2)), Shr(seed, 7))
    IN  Or(Shr(seed, 1), Shl(newbit, 127))

\* the register of width W as a plain shift register: no feedback
rotate_on_no_feedback(W, seed) == Shr(seed, 1)

\* the same tap rule on a register of W bits (W = 128 is rotate)
rotate_on(W, seed) ==
    LET newbit == Xor(Xor(Xor(seed, Shr(seed, 1)), Shr(seed, 2)), Shr(seed, 7))
    IN  Or(Shr(seed, 1), Shl(newbit, W - 1))

(***************************************************************************)
(* The `%` of two Seed values.  TLC's integers are 32 bits wide, so the    *)
(* division is carried out on numbers written in base 2^30 (a tuple of     *)
(* digits, least significant first): binary long division, one bit of the  *)
(* dividend per step, the divisor subtracted whenever it fits.  The bits   *)
(* of the dividend above the divisor's top bit are below the divisor and   *)
(* start the remainder; the digits held are those that hold 2m.            *)
(***************************************************************************)
\* the position of the most significant set bit of a /= 0
TopBit(a) == CHOOSE i \in DOMAIN a : a[i] = 1 /\ \A j \in DOMAIN a : j > i => a[j] = 0

RECURSIVE Weigh(_, _, _)
Weigh(a, lo, k) ==
    IF k = 30 THEN 0
    ELSE (IF (lo + k) \in DOMAIN a THEN a[lo + k] * (2 ^ k) ELSE 0) + Weigh(a, lo, k + 1)

\* the n least significant base-2^30 digits of a
RECURSIVE ToLimbs(_, _)
ToLimbs(a, n) == IF n = 0 THEN <<>> ELSE Append(ToLimbs(a, n - 1), Weigh(a, 30 * (n - 1), 0))

FromLimbs(r, n) ==
    [i \in Bits(n) |-> IF (i \div 30) + 1 \in DOMAIN r
                       THEN (r[(i \div 30) + 1] \div (2 ^ (i % 30))) % 2 ELSE 0]

\* 2 * r + carry, digit by digit from digit j on
RECURSIVE Double(_, _, _, _)
Double(r, j, carry, acc) ==
    IF j > Len(r) THEN acc
    ELSE Double(r, j + 1, r[j] \div (2 ^ 29), Append(acc, ((2 * r[j]) % (2 ^ 30)) + carry))

\* <<a - b modulo the digits held, final borrow>>: the borrow is 1 exactly when a < b
RECURSIVE SubLimbs(_, _, _, _, _)
SubLimbs(a, b, j, borrow, acc) ==
    IF j > Len(a) THEN <<acc, borrow>>
    ELSE LET d == a[j] - b[j] - borrow
         IN  IF d < 0 THEN SubLimbs(a, b, j + 1, 1, Append(acc, d + (2 ^ 30)))
             ELSE SubLimbs(a, b, j + 1, 0, Append(acc, d))

\* the division steps for bits i down to lo of the dividend a
RECURSIVE RemBits(_, _, _, _, _)
RemBits(r, a, m, i, lo) ==
    IF i < lo THEN r
    ELSE LET r2 == Double(r, 1, a[i], <<>>)
             d  == SubLimbs(r2, m, 1, 0, <<>>)
             r3 == IF d[2] = 0 THEN d[1] ELSE r2
         IN  IF Len(r3) = Len(r) THEN RemBits(r3, a, m, i - 1, lo) ELSE r3

\* sixteen bits of the dividend at a time, most significant first
RECURSIVE RemLoop(_, _, _, _)
RemLoop(r, a, m, i) ==
    IF i < 0 THEN r
    ELSE LET lo == IF i > 15 THEN i - 15 ELSE 0
             r2 == RemBits(r, a, m, i, lo)
         IN  IF Len(r2) = Len(r) THEN RemLoop(r2, a, m, lo - 1) ELSE r2

\* a % m for m /= 0
Rem(a, m) ==
    LET t == TopBit(m)
        n == ((t + 1) \div 30) + 1
        w == SEED_SIZE_BITS
    IN  IF a = Zero THEN Zero
        ELSE FromLimbs(RemLoop(ToLimbs(Shr(a, w - t), n), a, ToLimbs(m, n), w - t - 1), w)

(***************************************************************************)
(* The integer and floating-point types of the accessors                   *)
(***************************************************************************)
U8 == [bits |-> 8, signed |-> FALSE]

U16 == [bits |-> 16, signed |-> FALSE]

U32 == [bits |-> 32, signed |-> FALSE]

U64 == [bits |-> 64, signed |-> FALSE]

I8 == [bits |-> 8, signed |-> TRUE]

I16 == [bits |-> 16, signed |-> TRUE]

I32 == [bits |-> 32, signed |-> TRUE]

I64 == [bits |-> 64, signed |-> TRUE]

I128 == [bits |-> 128, signed |-> TRUE]

\* f32 and f64: the number of significant bits a value keeps
F32 == [mant |-> 24]

F64 == [mant |-> 53]

\* MAX taken as the unsigned maximum for every type
MAX_all_bits(T) == BV(T.bits, Bits(T.bits))

\* <T>::MAX in T's own bits (two's complement for a signed T)
MAX(T) == BV(T.bits, IF T.signed THEN Bits(T.bits - 1) ELSE Bits(T.bits))

\* <T>::MIN of a signed T
MIN(T) == BV(T.bits, {T.bits - 1})

\* a + 1, wrapping
Inc(a) ==
    IF \A i \in DOMAIN a : a[i] = 1 THEN [i \in DOMAIN a |-> 0]
    ELSE LET t == CHOOSE i \in DOMAIN a : a[i] = 0 /\ \A j \in DOMAIN a : j < i => a[j] = 1
         IN  [i \in DOMAIN a |-> IF i < t THEN 0 ELSE IF i = t THEN 1 ELSE a[i]]

\* n * -1 in two's complement, wrapping
MulMinusOne(n) == Inc([i \in DOMAIN n |-> 1 - n[i]])

\* the events that make an operation fail or lose bits
ShiftFault(n) == IF n >= SEED_SIZE_BITS THEN {"shift_overflow"} ELSE {}

RemFault(m) == IF IsZero(m) THEN {"rem_by_zero"} ELSE {}

\* `x as T` changes the value: set bits are cut off or land in T's sign bit
CastFault(x, T) ==
    IF \E i \in DOMAIN x : x[i] = 1 /\ i >= (IF T.signed THEN T.bits - 1 ELSE T.bits)
    THEN {"cast_changes_value"} ELSE {}

NegFault(n, T) == IF n = MIN(T) THEN {"neg_overflow"} ELSE {}

\* `x as f32` / `x as f64` of an unsigned x: the nearest value with FT.mant
\* significant bits, ties to even; the result is an integer, held in Seed width
AsFloat(x, FT) ==
    LET wide == As(x, SEED_SIZE_BITS)
    IN  IF IsZero(x) \/ TopBit(wide) < FT.mant THEN wide
        ELSE LET drop   == TopBit(wide) - FT.mant + 1
                 kept   == Shr(wide, drop)
                 guard  == wide[drop - 1] = 1
                 sticky == \E j \in Bits(drop - 1) : wide[j] = 1
                 up     == guard /\ (sticky \/ kept[0] = 1)
             IN  Shl(IF up THEN Inc(kept) ELSE kept, drop)

\* x / y of two floats, kept as the exact quotient of the two operands.  Both
\* divisors of the program are powers of two, for which the division is exact.
FDiv(x, y) == [num |-> x, den |-> y]

(***************************************************************************)
(* impl Random: every operator takes the seed held by `self` and yields    *)
(* the seed left in `self`, the value returned and the faults met.         *)
(***************************************************************************)
rotate_shifts == ShiftFault(1) \cup ShiftFault(2) \cup ShiftFault(7) \cup ShiftFault(127)

\* random that hands out the seed it found and rotates afterwards
random_returns_previous(self) ==
    [self |-> rotate(self), ret |-> self, faults |-> rotate_shifts]

random(self) ==
    LET s == rotate(self)
    IN  [self |-> s, ret |-> s, faults |-> rotate_shifts]

rand_u128(self) == random(self)

\* rand_bool shifting by the size in bytes instead of the size in bits
rand_bool_byte_size(self) ==
    LET r == random(self)
    IN  [self   |-> r.self,
         ret    |-> And(Shr(r.ret, SEED_SIZE - 1), SeedOf(1)) = SeedOf(1),
         faults |-> r.faults \cup ShiftFault(SEED_SIZE - 1)]

\* rand_bool testing the lowest bit of the sample instead of the highest
rand_bool_low_bit(self) ==
    LET r == random(self)
    IN  [self   |-> r.self,
         ret    |-> And(Shr(r.ret, 0), SeedOf(1)) = SeedOf(1),
         faults |-> r.faults \cup ShiftFault(0)]

rand_bool(self) ==
    LET r == random(self)
    IN  [self   |-> r.self,
         ret    |-> And(Shr(r.ret, SEED_SIZE_BITS - 1), SeedOf(1)) = SeedOf(1),
         faults |-> r.faults \cup ShiftFault(SEED_SIZE_BITS - 1)]

\* implement_unsigned reducing modulo 2^N: the low N bits of the sample
implement_unsigned_pow2(T, self) ==
    LET r == random(self)
    IN  [self |-> r.self, ret |-> As(r.ret, T.bits), faults |-> r.faults]

implement_unsigned(T, self) ==
    LET r == random(self)
        m == As(MAX(T), SEED_SIZE_BITS)
        q == IF IsZero(m) THEN r.ret ELSE Rem(r.ret, m)
    IN  [self   |-> r.self,
         ret    |-> As(q, T.bits),
         faults |-> r.faults \cup RemFault(m) \cup CastFault(q, T)]

\* implement_signed taking the sign from the sample it reduced: one rotation
implement_signed_one_rotation(T, self) ==
    LET r == random(self)
        m == As(MAX(T), SEED_SIZE_BITS)
        q == IF IsZero(m) THEN r.ret ELSE Rem(r.ret, m)
        n == As(q, T.bits)
        b == r.ret[SEED_SIZE_BITS - 1] = 1
    IN  [self   |-> r.self,
         ret    |-> IF b THEN MulMinusOne(n) ELSE n,
         faults |-> r.faults \cup RemFault(m) \cup CastFault(q, T)
                    \cup (IF b THEN NegFault(n, T) ELSE {})]

\* implement_signed drawing the sign first and the magnitude second
implement_signed_sign_first(T, self) ==
    LET b == rand_bool(self)
        r == random(b.self)
        m == As(MAX(T), SEED_SIZE_BITS)
        q == IF IsZero(m) THEN r.ret ELSE Rem(r.ret, m)
        n == As(q, T.bits)
    IN  [self   |-> r.self,
         ret    |-> IF b.ret THEN MulMinusOne(n) ELSE n,
         faults |-> r.faults \cup RemFault(m) \cup CastFault(q, T) \cup b.faults
                    \cup (IF b.ret THEN NegFault(n, T) ELSE {})]

\* implement_signed reducing modulo 2^(N-1): the low N-1 bits of the sample
implement_signed_pow2(T, self) ==
    LET r == random(self)
        m == As(MAX(T), SEED_SIZE_BITS)
        q == And(r.ret, m)
        n == As(q, T.bits)
        b == rand_bool(r.self)
    IN  [self   |-> b.self,
         ret    |-> IF b.ret THEN MulMinusOne(n) ELSE n,
         faults |-> r.faults \cup RemFault(m) \cup CastFault(q, T) \cup b.faults
                    \cup (IF b.ret THEN NegFault(n, T) ELSE {})]

implement_signed(T, self) ==
    LET r == random(self)
        m == As(MAX(T), SEED_SIZE_BITS)
        q == IF IsZero(m) THEN r.ret ELSE Rem(r.ret, m)
        n == As(q, T.bits)
        b == rand_bool(r.self)
    IN  [self   |-> b.self,
         ret    |-> IF b.ret THEN MulMinusOne(n) ELSE n,
         faults |-> r.faults \cup RemFault(m) \cup CastFault(q, T) \cup b.faults
                    \cup (IF b.ret THEN NegFault(n, T) ELSE {})]

rand_u8(self) == implement_unsigned(U8, self)

rand_u16(self) == implement_unsigned(U16, self)

rand_u32(self) == implement_unsigned(U32, self)

rand_u64(self) == implement_unsigned(U64, self)

rand_i8(self) == implement_signed(I8, self)

rand_i16(self) == implement_signed(I16, self)

rand_i32(self) == implement_signed(I32, self)

rand_i64(self) == implement_signed(I64, self)

rand_i128(self) == implement_signed(I128, self)

implement_floating(FT, UT, self) ==
    LET r == rand_u64(self)
    IN  [self   |-> r.self,
         ret    |-> FDiv(AsFloat(r.ret, FT), AsFloat(MAX(UT), FT)),
         faults |-> r.faults]

rand_f64(self) == implement_floating(F64, U64, self)

rand_f32(self) == implement_floating(F32, U32, self)

(***************************************************************************)
(* impl RandomSeedSource.  The environment env is what the process reads   *)
(* at construction: the clock, libc's rand(), the two device files, and    *)
(* the byte order of the target.  A device file either cannot be opened   *)
(* or delivers a sequence of bytes.  An unwrap() of a failed open or read  *)
(* panics.                                                                 *)
(***************************************************************************)
Abs(n) == IF n < 0 THEN 0 - n ELSE n

Manual(n) == [kind |-> "Manual", n |-> n]

SystemTime == [kind |-> "SystemTime"]

Crand == [kind |-> "Crand"]

UrandomDev == [kind |-> "UrandomDev"]

RandomDev == [kind |-> "RandomDev"]

get_system_time(env) == SeedOf(Abs(env.time))

crand(env) == SeedOf(Abs(env.rand))

\* Seed::from_le_bytes / Seed::from_be_bytes of a buffer of SEED_SIZE bytes
from_le_bytes(bytesbuf) ==
    [i \in Bits(SEED_SIZE_BITS) |-> (bytesbuf[(i \div 8) + 1] \div (2 ^ (i % 8))) % 2]

from_be_bytes(bytesbuf) ==
    [i \in Bits(SEED_SIZE_BITS) |-> (bytesbuf[SEED_SIZE - (i \div 8)] \div (2 ^ (i % 8))) % 2]

\* read_from_randdev that keeps what it got: a device that cannot be opened
\* or runs short leaves the rest of the zeroed buffer as it was
read_from_randdev_keeps_buffer(dev, env) ==
    LET file     == env.dev[dev]
        got      == IF file.opens THEN file.bytes ELSE <<>>
        bytesbuf == [j \in 1 .. SEED_SIZE |-> IF j <= Len(got) THEN got[j] ELSE 0]
    IN  [panic |-> FALSE,
         seed  |-> IF env.big_endian THEN from_be_bytes(bytesbuf)
                   ELSE from_le_bytes(bytesbuf)]

read_from_randdev(dev, env) ==
    LET file == env.dev[dev]
    IN  IF ~file.opens THEN [panic |-> TRUE]
        ELSE IF Len(file.bytes) < SEED_SIZE THEN [panic |-> TRUE]
        ELSE LET bytesbuf == SubSeq(file.bytes, 1, SEED_SIZE)
             IN  [panic |-> FALSE,
                  seed  |-> IF env.big_endian THEN from_be_bytes(bytesbuf)
                            ELSE from_le_bytes(bytesbuf)]

\* get_seed whose Manual arm reads the clock instead of the value given
get_seed_manual_ignored(src, env) ==
    CASE src.kind = "Manual"     -> [panic |-> FALSE, seed |-> get_system_time(env)]
      [] src.kind = "SystemTime" -> [panic |-> FALSE, seed |-> get_system_time(env)]
      [] src.kind = "Crand"      -> [panic |-> FALSE, seed |-> crand(env)]
      [] src.kind = "UrandomDev" -> read_from_randdev("urandom", env)
      [] src.kind = "RandomDev"  -> read_from_randdev("random", env)

get_seed(src, env) ==
    CASE src.kind = "Manual"     -> [panic |-> FALSE, seed |-> src.n]
      [] src.kind = "SystemTime" -> [panic |-> FALSE, seed |-> get_system_time(env)]
      [] src.kind = "Crand"      -> [panic |-> FALSE, seed |-> crand(env)]
      [] src.kind = "UrandomDev" -> read_from_randdev("urandom", env)
      [] src.kind = "RandomDev"  -> read_from_randdev("random", env)

\* Random::new: the generator built, or the panic of get_seed passed on
new(seed_src, env) == get_seed(seed_src, env)

(***************************************************************************)
(* The seeds and environments the model is run from                        *)
(***************************************************************************)
One == SeedOf(1)

FortyTwo == SeedOf(42)

AllOnes == BV(SEED_SIZE_BITS, Bits(SEED_SIZE_BITS))

Spread == BV(SEED_SIZE_BITS, {0, 5, 41, 64, 65, 100, 127})

\* 255 rotates to 127, a multiple of i8::MAX, with the next feedback bit 1
LowByte == SeedOf(255)

ManualSeeds == {Zero, One, FortyTwo, AllOnes, Spread, LowByte}

Sources == {Manual(n) : n \in ManualSeeds} \cup {SystemTime, Crand, UrandomDev, RandomDev}

\* the bytes an entropy device delivers, in the order they are read
Entropy ==
    << 17, 34, 51, 68, 85, 102, 119, 136, 153, 170, 187, 204, 221, 238, 255, 128,
       7, 250, 66, 129, 3, 90, 201, 44, 180, 12, 99, 233, 150, 61, 8, 77 >>

\* the systems the program runs on: a healthy one, and one whose clock call
\* fails (time() returns -1), whose /dev/urandom runs dry after 3 bytes and
\* whose /dev/random cannot be opened
Worlds ==
    { [clock_ok |-> TRUE,  urandom |-> [opens |-> TRUE, avail |-> 32],
                           random  |-> [opens |-> TRUE, avail |-> 32]],
      [clock_ok |-> FALSE, urandom |-> [opens |-> TRUE, avail |-> 3],
                           random  |-> [opens |-> FALSE, avail |-> 0]] }

\* what a device hands to the k-th construction: the next 16 bytes, or what is left
File(d, k) ==
    [opens |-> d.opens,
     bytes |-> IF d.avail >= 16 * k THEN SubSeq(Entropy, 16 * (k - 1) + 1, 16 * k)
               ELSE SubSeq(Entropy, 1, d.avail)]

\* what the k-th construction of a run reads: the clock has advanced, rand()
\* has moved on (glibc's first two values), the devices deliver fresh bytes
Env(w, k, big) ==
    [time       |-> IF w.clock_ok THEN 1700000000 + k ELSE -1,
     rand       |-> IF k = 1 THEN 1804289383 ELSE 846930886,
     dev        |-> [urandom |-> File(w.urandom, k), random |-> File(w.random, k)],
     big_endian |-> big]

\* the accessor calls made on one generator in a run
MaxCalls == 3

(***************************************************************************)
(* The program: two generators built from the same seed source, each from  *)
(* its own reading of the environment.  Generator 1 is called freely;      *)
(* generator 2 is driven through the same call sequence, one call behind.  *)
(***************************************************************************)
Gen == {1, 2}

SignedOps == {"rand_i8", "rand_i16", "rand_i32", "rand_i64", "rand_i128"}

VARIABLES
    src,      \* the RandomSeedSource both generators are built from
    status,   \* "running", or "panicked" once an unwrap() has failed
    seed,     \* seed[g]: the seed field of generator g (no generator after a panic)
    seed0,    \* seed0[g]: the seed generator g was built with
    calls,    \* calls[g]: how many signed and how many other accessors were called
    last,     \* the most recent accessor call: generator, accessor, seed before, result
    lead,     \* generator 1's most recent call, and whether generator 2 has repeated it
    file,     \* file[g]: the device file the construction of generator g read, if any
    walk,     \* a register of WalkWidth bits rotated on its own: start, current, count
    hist      \* hist[g]: the calls made on generator g when both are called freely

vars == <<src, status, seed, seed0, calls, last, lead, file, walk, hist>>

NoHist == <<<<>>, <<>>>>

NoWalk == [start |-> <<>>, cur |-> <<>>, steps |-> 0]

\* the device a seed source reads
DevOf == [UrandomDev |-> "urandom", RandomDev |-> "random"]

NoCall == [gen |-> 0, op |-> "none", pre |-> Zero, ret |-> FALSE, faults |-> {}]

Init ==
    \E s \in Sources, w \in Worlds, big \in BOOLEAN :
        LET g1 == new(s, Env(w, 1, big))
            g2 == new(s, Env(w, 2, big))
        IN  /\ src = s
            /\ IF g1.panic \/ g2.panic
               THEN status = "panicked" /\ seed = <<>>
               ELSE status = "running" /\ seed = <<g1.seed, g2.seed>>
            /\ seed0 = seed
            /\ calls = [g \in Gen |-> [signed |-> 0, other |-> 0]]
            /\ last = NoCall
            /\ lead = [op |-> "none", ret |-> FALSE, replayed |-> TRUE]
            /\ file = IF s.kind \in DOMAIN DevOf
                      THEN <<Env(w, 1, big).dev[DevOf[s.kind]],
                             Env(w, 2, big).dev[DevOf[s.kind]]>>
                      ELSE <<>>
            /\ walk = NoWalk
            /\ hist = NoHist

\* generator g runs accessor op, whose outcome on seed[g] is res
Call(g, op, res) ==
    /\ status = "running"
    /\ calls[g].signed + calls[g].other < MaxCalls
    /\ IF g = 1 THEN lead.replayed ELSE ~lead.replayed /\ lead.op = op
    /\ seed' = [seed EXCEPT ![g] = res.self]
    /\ status' = IF "rem_by_zero" \in res.faults THEN "panicked" ELSE status
    /\ calls' = IF op \in SignedOps
                THEN [calls EXCEPT ![g].signed = @ + 1]
                ELSE [calls EXCEPT ![g].other = @ + 1]
    /\ last' = [gen |-> g, op |-> op, pre |-> seed[g], ret |-> res.ret,
                faults |-> res.faults]
    /\ lead' = IF g = 1 THEN [op |-> op, ret |-> res.ret, replayed |-> FALSE]
               ELSE [lead EXCEPT !.replayed = TRUE]
    /\ UNCHANGED <<src, seed0, file, walk, hist>>

call_random(g) == Call(g, "random", random(seed[g]))

call_rand_u128(g) == Call(g, "rand_u128", rand_u128(seed[g]))

call_rand_bool(g) == Call(g, "rand_bool", rand_bool(seed[g]))

call_rand_f64(g) == Call(g, "rand_f64", rand_f64(seed[g]))

call_rand_f32(g) == Call(g, "rand_f32", rand_f32(seed[g]))

call_rand_u8(g) == Call(g, "rand_u8", rand_u8(seed[g]))

call_rand_u16(g) == Call(g, "rand_u16", rand_u16(seed[g]))

call_rand_u32(g) == Call(g, "rand_u32", rand_u32(seed[g]))

call_rand_u64(g) == Call(g, "rand_u64", rand_u64(seed[g]))

call_rand_i8(g) == Call(g, "rand_i8", rand_i8(seed[g]))

call_rand_i16(g) == Call(g, "rand_i16", rand_i16(seed[g]))

call_rand_i32(g) == Call(g, "rand_i32", rand_i32(seed[g]))

call_rand_i64(g) == Call(g, "rand_i64", rand_i64(seed[g]))

call_rand_i128(g) == Call(g, "rand_i128", rand_i128(seed[g]))

Next ==
    \E g \in Gen :
        \/ call_random(g)
        \/ call_rand_u128(g)
        \/ call_rand_bool(g)
        \/ call_rand_f64(g)
        \/ call_rand_f32(g)
        \/ call_rand_u8(g)
        \/ call_rand_u16(g)
        \/ call_rand_u32(g)
        \/ call_rand_u64(g)
        \/ call_rand_i8(g)
        \/ call_rand_i16(g)
        \/ call_rand_i32(g)
        \/ call_rand_i64(g)
        \/ call_rand_i128(g)

Spec == Init /\ [][Next]_vars

(***************************************************************************)
(* The register on its own: rotate, with the same taps, applied over and   *)
(* over to a register of WalkWidth bits, started from zero, from all ones  *)
(* and from every state with one or two bits set.  No generator is built   *)
(* here.  steps counts the rotations since the register last held its      *)
(* starting state; the caller keeps rotating.                              *)
(***************************************************************************)
WalkWidth == 8

Period == (2 ^ WalkWidth) - 1

WalkStarts ==
    {BV(WalkWidth, {i, j}) : i, j \in Bits(WalkWidth)}
        \cup {BV(WalkWidth, {}), BV(WalkWidth, Bits(WalkWidth))}

InitWalk ==
    /\ \E s \in WalkStarts : walk = [start |-> s, cur |-> s, steps |-> 0]
    /\ src = Manual(Zero)
    /\ status = "unbuilt"
    /\ seed = <<>>
    /\ seed0 = <<>>
    /\ calls = [g \in Gen |-> [signed |-> 0, other |-> 0]]
    /\ last = NoCall
    /\ lead = [op |-> "none", ret |-> FALSE, replayed |-> TRUE]
    /\ file = <<>>
    /\ hist = NoHist

walk_rotate ==
    /\ status = "unbuilt"
    /\ walk.cur = walk.start \/ walk.steps <= Period
    /\ walk' = [start |-> walk.start,
                cur   |-> rotate_on(WalkWidth, walk.cur),
                steps |-> IF walk.cur = walk.start THEN 1 ELSE walk.steps + 1]
    /\ UNCHANGED <<src, status, seed, seed0, calls, last, lead, file, hist>>

NextWalk == walk_rotate

SpecWalk == InitWalk /\ [][NextWalk]_vars /\ WF_vars(walk_rotate)

(***************************************************************************)
(* Two generators in one program, A = 1 and B = 2, each built from its own *)
(* Manual seed (src is the pair of sources) and called in any order, each  *)
(* with its own sequence of accessors.                                     *)
(***************************************************************************)
Accessor(op, self) ==
    CASE op = "random"    -> random(self)
      [] op = "rand_u128" -> rand_u128(self)
      [] op = "rand_bool" -> rand_bool(self)
      [] op = "rand_f64"  -> rand_f64(self)
      [] op = "rand_f32"  -> rand_f32(self)
      [] op = "rand_u8"   -> rand_u8(self)
      [] op = "rand_u16"  -> rand_u16(self)
      [] op = "rand_u32"  -> rand_u32(self)
      [] op = "rand_u64"  -> rand_u64(self)
      [] op = "rand_i8"   -> rand_i8(self)
      [] op = "rand_i16"  -> rand_i16(self)
      [] op = "rand_i32"  -> rand_i32(self)
      [] op = "rand_i64"  -> rand_i64(self)
      [] op = "rand_i128" -> rand_i128(self)

\* the accessors called, the seeds of A and B, and the calls made in all
FreeOps == {"random", "rand_bool", "rand_u8", "rand_i16", "rand_f32"}

FreeSeeds == {<<FortyTwo, Spread>>, <<AllOnes, AllOnes>>}

MaxFree == 3

InitFree ==
    /\ \E p \in FreeSeeds, w \in Worlds, big \in BOOLEAN :
          /\ src = <<Manual(p[1]), Manual(p[2])>>
          /\ seed = <<new(src[1], Env(w, 1, big)).seed, new(src[2], Env(w, 2, big)).seed>>
    /\ seed0 = seed
    /\ status = "running"
    /\ calls = [g \in Gen |-> [signed |-> 0, other |-> 0]]
    /\ last = NoCall
    /\ lead = [op |-> "none", ret |-> FALSE, replayed |-> TRUE]
    /\ file = <<>>
    /\ walk = NoWalk
    /\ hist = NoHist

\* a program in which every generator reads and writes one seed shared by all
FreeCall_shared_seed(g, op) ==
    /\ Len(hist[1]) + Len(hist[2]) < MaxFree
    /\ LET res == Accessor(op, seed[g])
       IN  /\ seed' = [h \in Gen |-> res.self]
           /\ hist' = [hist EXCEPT ![g] = Append(@, [op |-> op, ret |-> res.ret])]
    /\ UNCHANGED <<src, status, seed0, calls, last, lead, file, walk>>

FreeCall(g, op) ==
    /\ Len(hist[1]) + Len(hist[2]) < MaxFree
    /\ LET res == Accessor(op, seed[g])
       IN  /\ seed' = [seed EXCEPT ![g] = res.self]
           /\ hist' = [hist EXCEPT ![g] = Append(@, [op |-> op, ret |-> res.ret])]
    /\ UNCHANGED <<src, status, seed0, calls, last, lead, file, walk>>

NextFree == \E g \in Gen, op \in FreeOps : FreeCall(g, op)

SpecFree == InitFree /\ [][NextFree]_vars

(***************************************************************************)
(* Properties.  What they need besides the model: the state a call left    *)
(* behind, an adder on bit vectors, and the residue modulo 2^k - 1 taken   *)
(* as the end-around-carry sum of the k-bit digits (2^k = 1 modulo         *)
(* 2^k - 1), which owes nothing to the long division of Rem.               *)
(***************************************************************************)
Called == last.op /= "none"

\* the seed the most recent call left in its generator
Post == seed[last.gen]

Total(g) == calls[g].signed + calls[g].other

\* bits lo..hi of x + y + c, appended to acc, with the carry out
RECURSIVE AddBlock(_, _, _, _, _, _)
AddBlock(x, y, i, hi, c, acc) ==
    IF i > hi THEN <<acc, c>>
    ELSE LET t == x[i] + y[i] + c
         IN  AddBlock(x, y, i + 1, hi, t \div 2, Append(acc, t % 2))

RECURSIVE AddFrom(_, _, _, _, _, _)
AddFrom(x, y, n, lo, c, acc) ==
    IF lo >= n THEN <<acc, c>>
    ELSE LET hi == IF lo + 15 < n THEN lo + 15 ELSE n - 1
             b  == AddBlock(x, y, lo, hi, c, <<>>)
         IN  AddFrom(x, y, n, hi + 1, b[2], acc \o b[1])

\* x + y of two n-bit vectors: the n-bit sum and the carry out
Add(x, y, n) ==
    LET r == AddFrom(x, y, n, 0, 0, <<>>)
    IN  [sum |-> [i \in Bits(n) |-> r[1][i + 1]], carry |-> r[2]]

Digit(s, k, j) == [i \in Bits(k) |-> IF (j * k + i) \in DOMAIN s THEN s[j * k + i] ELSE 0]

AddEndAround(x, y, k) ==
    LET a == Add(x, y, k)
    IN  IF a.carry = 1 THEN Add(a.sum, BV(k, {0}), k).sum ELSE a.sum

\* the digits from the j-th on added to acc, a sum of all ones read as 0
RECURSIVE DigitSum(_, _, _, _)
DigitSum(s, k, j, acc) ==
    IF j * k >= SEED_SIZE_BITS THEN acc
    ELSE LET a == AddEndAround(acc, Digit(s, k, j), k)
         IN  IF a = BV(k, Bits(k)) THEN DigitSum(s, k, j + 1, BV(k, {}))
             ELSE DigitSum(s, k, j + 1, a)

\* s mod (2^k - 1), as a k-bit vector
ModMersenne(s, k) == DigitSum(s, k, 0, BV(k, {}))

\* a <= b as unsigned numbers of the same width
Leq(a, b) == a = b \/ \E i \in DOMAIN a : a[i] < b[i] /\ \A j \in DOMAIN a : j > i => a[j] = b[j]

UnsignedBits == [rand_u8 |-> 8, rand_u16 |-> 16, rand_u32 |-> 32, rand_u64 |-> 64]

SignedBits == [rand_i8 |-> 8, rand_i16 |-> 16, rand_i32 |-> 32, rand_i64 |-> 64,
               rand_i128 |-> 128]

\* the values Manual(42) yields from rand_u8() as 1st, 2nd, ... rotation, worked by hand
Golden42 == <<149, 74, 165, 82>>

(* C1: Determinism.  Two generators built with Random::new(Manual(v)) and  *)
(* driven through the same accessor calls hold the same seed whenever both *)
(* have made the same calls, and the value generator 2 gets from a call is *)
(* the value generator 1 got from it.  Manual(42) yields 149, 74, 165 from *)
(* rand_u8() as its first three single-rotation calls.                     *)
C1_Determinism ==
    (src.kind = "Manual") =>
        /\ status = "running"
        /\ lead.replayed => seed[1] = seed[2]
        /\ (lead.replayed /\ last.gen = 2) => (last.op = lead.op /\ last.ret = lead.ret)
        /\ \A k \in DOMAIN Golden42 :
              ( /\ src = Manual(FortyTwo)
                /\ last.op = "rand_u8"
                /\ calls[last.gen] = [signed |-> 0, other |-> k] )
              => last.ret = As(SeedOf(Golden42[k]), 8)

\* generator 2 has repeated the third rand_u8() of generator 1 after Manual(42)
C1_Witness ==
    /\ src = Manual(FortyTwo)
    /\ lead.replayed /\ last.gen = 2 /\ last.op = "rand_u8"
    /\ calls[2] = [signed |-> 0, other |-> 3]
    /\ last.ret = As(SeedOf(165), 8)
    /\ seed[1] = seed[2]

(* C2: Rotation correctness.  A call of random() or rand_u128() on seed s  *)
(* leaves (and returns) the seed whose bits 0..126 are bits 1..127 of s    *)
(* and whose bit 127 is bit0 XOR bit1 XOR bit2 XOR bit7 of s: no other bit *)
(* of the feedback word reaches the state.  For s = 1 the result is        *)
(* 1 << 127.                                                               *)
C2_RotationCorrect ==
    (last.op \in {"random", "rand_u128"}) =>
        /\ \A i \in 0 .. 126 : Post[i] = last.pre[i + 1]
        /\ Post[127] = (last.pre[0] + last.pre[1] + last.pre[2] + last.pre[7]) % 2
        /\ last.ret = Post
        /\ last.pre = One => Post = BV(128, {127})

\* random() has run on the seed 1, and on a seed whose feedback word has many bits set
C2_Witness ==
    /\ last.op = "random"
    /\ last.pre = One
    /\ Post = BV(128, {127})

(* C3: Unsigned accessors.  rand_uN() for N in {8, 16, 32, 64} returns     *)
(* S mod (2^N - 1) as an N-bit value, S being the rotation of the seed     *)
(* before the call; so it lies in [0, 2^N - 2] and is never 2^N - 1.       *)
C3_UnsignedMod ==
    (last.op \in DOMAIN UnsignedBits) =>
        LET n == UnsignedBits[last.op]
        IN  /\ DOMAIN last.ret = Bits(n)
            /\ last.ret = ModMersenne(rotate(last.pre), n)
            /\ last.ret /= BV(n, Bits(n))

\* rand_u64() has reduced a seed with bits set above bit 63 to a nonzero value
C3_Witness ==
    /\ last.op = "rand_u64"
    /\ last.pre = Spread
    /\ \E i \in 64 .. 127 : Post[i] = 1
    /\ ~IsZero(last.ret)
    /\ last.ret /= As(Post, 64)

(* C4: Float range.  rand_f32() and rand_f64() return a value in [0.0,     *)
(* 1.0]: the number converted and divided is never greater than the        *)
(* divisor, and the divisor is not zero.                                   *)
C4_FloatRange ==
    (last.op \in {"rand_f32", "rand_f64"}) =>
        /\ ~IsZero(last.ret.den)
        /\ Leq(last.ret.num, last.ret.den)

(* C5: Rotation cost.  A signed accessor leaves rotate(rotate(s)) of the   *)
(* seed s it was called on, every other accessor leaves rotate(s); after   *)
(* any calls the seed is the initial seed rotated 2 * (signed calls) +     *)
(* (other calls) times.                                                    *)
RECURSIVE RotateTimes(_, _)
RotateTimes(s, k) == IF k = 0 THEN s ELSE rotate(RotateTimes(s, k - 1))

C5_RotationCost ==
    /\ Called =>
          Post = (IF last.op \in SignedOps THEN rotate(rotate(last.pre)) ELSE rotate(last.pre))
    /\ \A g \in DOMAIN seed :
          seed[g] = RotateTimes(seed0[g], 2 * calls[g].signed + calls[g].other)

\* a signed accessor has run as the third call, five rotations from the initial seed
C5_Witness ==
    /\ last.op = "rand_i64"
    /\ calls[last.gen] = [signed |-> 2, other |-> 1]
    /\ Post = RotateTimes(seed0[last.gen], 5)
    /\ Post /= RotateTimes(seed0[last.gen], 4)

(* C6: Signed accessors.  With S1 = rotate(s) and S2 = rotate(S1),         *)
(* rand_iN() returns c = S1 mod (2^(N-1) - 1) when bit 127 of S2 is 0 and  *)
(* -c when it is 1: magnitude from the first rotation, sign from the       *)
(* second.  -c is the N-bit two's complement value that added to c gives 0.*)
C6_SignedValue ==
    (last.op \in DOMAIN SignedBits) =>
        LET n  == SignedBits[last.op]
            S1 == rotate(last.pre)
            S2 == rotate(S1)
            c  == As(ModMersenne(S1, n - 1), n)
        IN  /\ DOMAIN last.ret = Bits(n)
            /\ IF S2[127] = 0 THEN last.ret = c
               ELSE /\ Add(last.ret, c, n).sum = BV(n, {})
                    /\ IsZero(c) \/ last.ret[n - 1] = 1

\* rand_i64() has returned a negative value: the second rotation set bit 127
C6_Witness ==
    /\ last.op = "rand_i64"
    /\ Post[127] = 1
    /\ last.ret[63] = 1
    /\ last.ret /= As(ModMersenne(rotate(last.pre), 63), 64)

(* C7: Boolean accessor.  rand_bool() rotates the seed once and returns    *)
(* true exactly when bit 127 of the seed it leaves is 1.                   *)
C7_BoolTopBit ==
    (last.op = "rand_bool") =>
        /\ Post = rotate(last.pre)
        /\ last.ret = (Post[127] = 1)

\* rand_bool() has returned true on a seed whose own bit 127 and bit 0 are 0
C7_Witness ==
    /\ last.op = "rand_bool"
    /\ last.ret = TRUE
    /\ last.pre[127] = 0 /\ last.pre[0] = 0

(* C8: Non-degeneracy.  A generator built with a nonzero seed never holds  *)
(* the all-zero seed, whatever accessors are called.                       *)
C8_NeverZero ==
    \A g \in DOMAIN seed : seed0[g] /= Zero => seed[g] /= Zero

\* the seed 1, whose shifted part is 0 after one rotation, has been rotated twice or more
C8_Witness ==
    /\ status = "running"
    /\ seed0[1] = One
    /\ Total(1) >= 2
    /\ seed[1] /= Zero

(* C9: Zero fixed point.  Random::new(Manual(0)) is accepted, the seed     *)
(* stays 0 after any accessor calls, and every accessor returns zero:      *)
(* 0 from the integer accessors, false from rand_bool, 0.0 from the floats.*)
C9_ZeroFixedPoint ==
    (src = Manual(Zero)) =>
        /\ status = "running"
        /\ \A g \in DOMAIN seed : seed[g] = Zero
        /\ Called =>
              CASE last.op = "rand_bool" -> last.ret = FALSE
                [] last.op \in {"rand_f32", "rand_f64"} ->
                       IsZero(last.ret.num) /\ ~IsZero(last.ret.den)
                [] OTHER -> IsZero(last.ret)

\* the third call on a generator built with Manual(0) was a float accessor
C9_Witness ==
    /\ src = Manual(Zero)
    /\ last.op = "rand_f32"
    /\ Total(last.gen) = 3
    /\ IsZero(last.ret.num)

(* C10: Totality.  No accessor call fails, whatever the seed: the modulus  *)
(* is not 0, the reduced value fits the target type, every shift amount is *)
(* below 128, the negation of a signed accessor does not overflow; the     *)
(* program is still running after the call.                                *)
C10_Totality ==
    Called => (last.faults = {} /\ status = "running")

\* rand_i8() has reduced, narrowed and negated a nonzero value without failing
C10_Witness ==
    /\ last.op = "rand_i8"
    /\ last.ret[7] = 1
    /\ last.faults = {}
    /\ status = "running"

(* C11: Seed acquisition failure.  When the device of a UrandomDev or       *)
(* RandomDev source cannot be opened, or delivers fewer than 16 bytes,     *)
(* Random::new fails (the unwrap() of the I/O error panics, which ends the *)
(* caller too): no generator exists, no accessor is ever called, and no    *)
(* seed is made up.  A generator that does exist holds exactly the 16      *)
(* bytes its construction read, in one of the two byte orders.             *)
C11_AcquisitionFailure ==
    (src.kind \in DOMAIN DevOf) =>
        LET failed == \E g \in DOMAIN file :
                          ~file[g].opens \/ Len(file[g].bytes) < SEED_SIZE
        IN  IF failed
            THEN status = "panicked" /\ seed = <<>> /\ seed0 = <<>> /\ ~Called
            ELSE /\ DOMAIN seed0 = Gen
                 /\ \A g \in Gen :
                        seed0[g] \in {from_le_bytes(file[g].bytes),
                                      from_be_bytes(file[g].bytes)}

\* /dev/urandom ran dry after 3 bytes and the construction has failed
C11_Witness ==
    /\ src.kind = "UrandomDev"
    /\ file[1].opens /\ Len(file[1].bytes) = 3
    /\ status = "panicked"

(* C12: Seed invariant.  Random::new(Manual(v)) does not fail and stores v *)
(* unchanged; a generator that has not been called still holds the seed it *)
(* was built with; after a call the seed is the result of the most recent  *)
(* rotation.  random() and rand_u128() return the seed their own rotation  *)
(* produced, which is the seed held after the call: the first random()     *)
(* after Manual(v) returns rotate(v), not v.                               *)
C12_SeedInvariant ==
    /\ (src.kind = "Manual") => (status = "running" /\ seed0 = <<src.n, src.n>>)
    /\ (status = "running") => \A g \in Gen : Total(g) = 0 => seed[g] = seed0[g]
    /\ Called => Post = IF last.op \in SignedOps THEN rotate(rotate(last.pre))
                        ELSE rotate(last.pre)
    /\ (last.op \in {"random", "rand_u128"}) =>
           /\ last.ret = Post
           /\ last.ret = rotate(last.pre)
           /\ (Total(last.gen) = 1) => last.ret = rotate(seed0[last.gen])

\* the first random() after Manual(42) has returned rotate(42), the seed now held
C12_Witness ==
    /\ src = Manual(FortyTwo)
    /\ last.op = "random"
    /\ Total(last.gen) = 1
    /\ last.ret = rotate(FortyTwo) /\ last.ret /= FortyTwo
    /\ seed[last.gen] = last.ret

(* C13: Float derivation.  The number rand_f32() converts and divides by   *)
(* u32::MAX is S mod (2^32 - 1), the value rand_u32() returns from the     *)
(* same seed; the number rand_f64() converts and divides by u64::MAX is    *)
(* S mod (2^64 - 1), the value of rand_u64().                              *)
C13_FloatNumerator ==
    /\ (last.op = "rand_f32") =>
           /\ last.ret.num = AsFloat(rand_u32(last.pre).ret, F32)
           /\ last.ret.num = AsFloat(ModMersenne(rotate(last.pre), 32), F32)
           /\ last.ret.den = AsFloat(MAX(U32), F32)
    /\ (last.op = "rand_f64") =>
           /\ last.ret.num = AsFloat(rand_u64(last.pre).ret, F64)
           /\ last.ret.num = AsFloat(ModMersenne(rotate(last.pre), 64), F64)
           /\ last.ret.den = AsFloat(MAX(U64), F64)

(* C14: Cyclic walk.  On a register of WalkWidth bits with the taps of     *)
(* rotate, from each starting state: a rotation is always possible (no     *)
(* terminal state), and the register comes back to its starting state      *)
(* again and again, each time after at most 2^WalkWidth - 1 rotations.     *)
C14_CyclicWalk ==
    /\ []ENABLED walk_rotate
    /\ []<>(walk.cur = walk.start /\ walk.steps >= 1 /\ walk.steps <= Period)
    /\ [](walk.steps <= Period)

\* a nonzero register is back at its starting state after more than one rotation
C14_Witness ==
    /\ \E i \in DOMAIN walk.start : walk.start[i] = 1
    /\ walk.cur = walk.start
    /\ walk.steps > 1

(* C15: Independence of generators.  With two generators A and B called   *)
(* in any order, each holds the seed and has received the values it gets   *)
(* when its own calls are made on a generator of its seed with no other    *)
(* generator around: a call on A changes A's seed only, and nothing is     *)
(* shared between the two.                                                 *)
RECURSIVE AloneRun(_, _)
AloneRun(s, ops) ==
    IF ops = <<>> THEN [self |-> s, rets |-> <<>>]
    ELSE LET r    == Accessor(Head(ops), s)
             rest == AloneRun(r.self, Tail(ops))
         IN  [self |-> rest.self, rets |-> <<r.ret>> \o rest.rets]

C15_Independence ==
    \A g \in Gen :
        LET alone == AloneRun(seed0[g], [i \in DOMAIN hist[g] |-> hist[g][i].op])
        IN  /\ seed[g] = alone.self
            /\ [i \in DOMAIN hist[g] |-> hist[g][i].ret] = alone.rets

\* A has been called twice and B once, from different seeds
C15_Witness ==
    /\ Len(hist[1]) = 2 /\ Len(hist[2]) = 1
    /\ seed0[1] /= seed0[2]
    /\ seed[1] /= seed0[1] /\ seed[2] /= seed0[2]

(* C16: rotate is injective.  The seed before a rotation is recovered from *)
(* the seed after it: bits 1..127 are bits 0..126 of the result, and bit 0 *)
(* is bit 127 of the result XOR bits 1, 2 and 7 of the seed before.  Two   *)
(* generators built with different seeds and given the same calls never    *)
(* hold the same seed.  rotate is the W = 128 case of the tap rule used on *)
(* narrower registers.                                                     *)
Unrotate(t) ==
    [i \in DOMAIN t |->
        IF i > 0 THEN t[i - 1]
        ELSE (t[SEED_SIZE_BITS - 1] + t[0] + t[1] + t[6]) % 2]

C16_RotateInjective ==
    Called =>
        /\ last.pre = IF last.op \in SignedOps THEN Unrotate(Unrotate(Post))
                      ELSE Unrotate(Post)
        /\ (last.op \notin SignedOps) => Post = rotate_on(SEED_SIZE_BITS, last.pre)
        /\ (lead.replayed /\ seed0[1] /= seed0[2]) => seed[1] /= seed[2]

\* two generators seeded from the clock one second apart have made the same
\* call on odd and even seeds and hold different seeds
C16_Witness ==
    /\ src.kind = "SystemTime"
    /\ Called /\ lead.replayed
    /\ seed0[1] /= seed0[2]
    /\ seed0[1][0] = 1
    /\ seed[1] /= seed[2]
    /\ Unrotate(Post) = last.pre

(* C17: The boolean is the feedback bit.  rand_bool() called on seed s     *)
(* returns true exactly when bit0 XOR bit1 XOR bit2 XOR bit7 of s is 1.    *)
(* A signed accessor called on seed s negates its candidate exactly when   *)
(* bit1 XOR bit2 XOR bit3 XOR bit8 of s is 1.  No other bit of s decides   *)
(* either.                                                                 *)
C17_FeedbackBit ==
    /\ (last.op = "rand_bool") =>
           last.ret = ((last.pre[0] + last.pre[1] + last.pre[2] + last.pre[7]) % 2 = 1)
    /\ (last.op \in SignedOps) =>
           LET n    == SignedBits[last.op]
               c    == As(ModMersenne(rotate(last.pre), n - 1), n)
               sign == (last.pre[1] + last.pre[2] + last.pre[3] + last.pre[8]) % 2
           IN  /\ Post[SEED_SIZE_BITS - 1] = sign
               /\ last.ret = IF sign = 1 THEN MulMinusOne(c) ELSE c

\* rand_bool() on 42 (bit 1 set, bits 0, 2 and 7 clear) has returned true
C17_Witness ==
    /\ last.op = "rand_bool"
    /\ last.pre = FortyTwo
    /\ last.ret = TRUE

(* C18: Signed range.  rand_iN() returns a value between -(2^(N-1) - 2)    *)
(* and 2^(N-1) - 2: never MIN = -2^(N-1), never -MAX = -(2^(N-1) - 1),     *)
(* never MAX = 2^(N-1) - 1.  When the candidate S mod (2^(N-1) - 1) is 0   *)
(* the value is 0, negated or not.                                         *)
C18_SignedRange ==
    (last.op \in SignedOps) =>
        LET n   == SignedBits[last.op]
            ret == last.ret
            abs == IF ret[n - 1] = 1
                   THEN Add([i \in Bits(n) |-> 1 - ret[i]], BV(n, {0}), n).sum
                   ELSE ret
        IN  /\ DOMAIN ret = Bits(n)
            /\ ret /= BV(n, {n - 1})
            /\ ret /= BV(n, {0, n - 1})
            /\ ret /= BV(n, Bits(n - 1))
            /\ abs[n - 1] = 0
            /\ Leq(abs, BV(n, 1 .. (n - 2)))
            /\ IsZero(ModMersenne(rotate(last.pre), n - 1)) => IsZero(ret)

\* rand_i8() on 255: the candidate 127 mod 127 = 0 was negated, and 0 returned
C18_Witness ==
    /\ last.op = "rand_i8"
    /\ last.pre = LowByte
    /\ Post[SEED_SIZE_BITS - 1] = 1
    /\ IsZero(last.ret)

=============================================================================
